---- MODULE Spec2Model ----
(***************************************************************************)
(* Model of src/src/App.jsx: the role switcher (App) and its two views,    *)
(* SeniorView (daily status, next pending dose, confirm) and CaregiverView *)
(* (dashboard), together with the HTTP requests they have in flight.       *)
(*                                                                         *)
(* One action is one turn of the browser's event loop: a user event        *)
(* handler with the render and effects it causes, or the continuation of   *)
(* an async function after an awaited fetch settles.  `await res.json()`   *)
(* is folded into the settlement of its fetch: no state is written between *)
(* the two awaits, so the request counts as in flight until the body has   *)
(* been read.                                                              *)
(***************************************************************************)
EXTENDS Integers, Sequences, FiniteSets, TLC

\* ---------------------------------------------------------------- bounds
MaxReqs == 5      \* requests issued in one run
MaxMounts == 2    \* view instances mounted in one run
MaxItems == 2     \* items of a Daily Status in SpecDerive
NumIds == 2       \* identifiers the user can have typed

\* ------------------------------------------------------------ JS values
Null == [null |-> TRUE]

\* useState('demo-patient'), and other texts the user may have typed
IdPool == <<"demo-patient", "ann b", "x&y">>
Ids == {IdPool[i] : i \in 1..NumIds}
DefaultId == IdPool[1]

\* encodeURIComponent on the identifiers of IdPool
EncodeURIComponent(s) ==
    CASE s = "ann b" -> "ann%20b"
      [] s = "x&y" -> "x%26y"
      [] OTHER -> s

\* the server's decoding of a query value
DecodeQuery(q) ==
    CASE q = "ann%20b" -> "ann b"
      [] q = "x%26y" -> "x&y"
      [] OTHER -> q

\* new Date(iso).getTime(), in minutes since 2024-01-01T00:00Z
DateValue(iso) ==
    CASE iso = "2024-01-01T08:00:00Z" -> 480
      [] iso = "2024-01-01T12:00:00Z" -> 720
      [] iso = "2024-01-01T13:00:00+01:00" -> 720
      [] iso = "2024-01-01T23:00:00+05:00" -> 1080
      [] iso = "2024-01-01T20:00:00Z" -> 1200

\* --------------------------------------------------- next pending dose
\* mutant: compares the wrong way round
CompareByTimeReversed(a, b) == DateValue(b.scheduled_time) - DateValue(a.scheduled_time)

\* (a,b) => new Date(a.scheduled_time) - new Date(b.scheduled_time)
CompareByTime(a, b) == DateValue(a.scheduled_time) - DateValue(b.scheduled_time)

RECURSIVE InsertStable(_, _)
InsertStable(x, s) ==
    IF s = <<>> THEN <<x>>
    ELSE IF CompareByTime(x, Head(s)) < 0 THEN <<x>> \o s
    ELSE <<Head(s)>> \o InsertStable(x, Tail(s))

\* Array.prototype.sort with the comparator above (stable, ES2019)
RECURSIVE SortItems(_)
SortItems(s) ==
    IF s = <<>> THEN <<>>
    ELSE InsertStable(s[Len(s)], SortItems(SubSeq(s, 1, Len(s) - 1)))

NotTaken(i) == i.status # "taken"

\* status.items.filter(i => i.status !== 'taken'): a fresh array
FilterPending(items) == SelectSeq(items, NotTaken)

\* !status?.items
HasNoItems(st) == "items" \notin DOMAIN st

\* the useMemo value nextPending
NextPendingOf(st) ==
    IF HasNoItems(st) THEN Null
    ELSE LET pending == FilterPending(st.items)
         IN IF Len(pending) = 0 THEN Null ELSE SortItems(pending)[1]

\* mutant: sorts status.items itself instead of the filtered copy
ItemsSortedInPlace(items) == SortItems(items)

\* status.items after the derivation: sort() reorders `pending`, the array
\* filter() returned, and never the array held by status
ItemsAfterDerive(items) == items

StatusAfterDerive(st) ==
    IF HasNoItems(st) THEN st ELSE [st EXCEPT !.items = ItemsAfterDerive(st.items)]

\* a render of SeniorView: recompute the memo from the current status
RenderSenior(s) ==
    [s EXCEPT !.nextPending = NextPendingOf(s.status),
              !.status = StatusAfterDerive(s.status)]

\* ------------------------------------------------------- the backend
Meds == {"A", "B"}
Statuses == {"pending", "taken", "missed"}
IsoTimes == {"2024-01-01T20:00:00Z", "2024-01-01T12:00:00Z",
             "2024-01-01T23:00:00+05:00", "2024-01-01T13:00:00+01:00"}
DoseItems == [medication_id : Meds, scheduled_time : IsoTimes, status : Statuses]

Dose(m, t, st) == [medication_id |-> m, scheduled_time |-> t, status |-> st]

\* body of GET /api/senior/today: { taken, total_doses, items }
DailyStatus(items) ==
    [taken |-> Len(SelectSeq(items, LAMBDA i : i.status = "taken")),
     total_doses |-> Len(items),
     items |-> items]

\* every Daily Status of at most MaxItems items
RECURSIVE ItemSeqs(_)
ItemSeqs(n) ==
    IF n = 0 THEN {<<>>}
    ELSE ItemSeqs(n - 1) \cup {Append(s, i) : s \in {q \in ItemSeqs(n - 1) : Len(q) = n - 1}, i \in DoseItems}
AnyDailyStatus == {DailyStatus(s) : s \in ItemSeqs(MaxItems)} \cup {[taken |-> 0, total_doses |-> 0]}

\* the bodies the server may send for a patient in the runs of Spec
TodayBodies(u) ==
    CASE u = "demo-patient" ->
           {DailyStatus(<<Dose("A", "2024-01-01T08:00:00Z", "taken"),
                          Dose("B", "2024-01-01T20:00:00Z", "pending"),
                          Dose("C", "2024-01-01T12:00:00Z", "pending")>>),
            DailyStatus(<<Dose("A", "2024-01-01T08:00:00Z", "taken")>>)}
      [] u = "ann b" ->
           {DailyStatus(<<Dose("D", "2024-01-01T23:00:00+05:00", "missed"),
                          Dose("E", "2024-01-01T13:00:00+01:00", "pending"),
                          Dose("F", "2024-01-01T12:00:00Z", "pending")>>)}
      [] OTHER -> {DailyStatus(<<>>)}

\* body of GET /api/caregiver/dashboard: { history, missed, inventory_alerts }
HistoryEntry(id, m, t, st) == [id |-> id, medication_id |-> m, scheduled_time |-> t, status |-> st]
DashboardBodies(p) ==
    CASE p = "demo-patient" ->
           {[history |-> <<HistoryEntry(1, "A", "2024-01-01T08:00:00Z", "taken"),
                           HistoryEntry(2, "B", "2024-01-01T12:00:00Z", "missed")>>,
             missed |-> <<HistoryEntry(2, "B", "2024-01-01T12:00:00Z", "missed")>>,
             inventory_alerts |-> <<[medication_id |-> "A", name |-> "Aspirin",
                                     inventory_count |-> 2, low_threshold |-> 5]>>],
            [history |-> <<>>, missed |-> <<>>, inventory_alerts |-> <<>>]}
      [] OTHER ->
           {[history |-> <<HistoryEntry(3, "D", "2024-01-01T20:00:00Z", "pending")>>,
             missed |-> <<>>, inventory_alerts |-> <<>>]}

\* e.message of the rejection of fetch() and of res.json()
NetworkErrorMessage == "Failed to fetch"
SyntaxErrorMessage == "Unexpected end of JSON input"

Ok(d) == [ok |-> TRUE, data |-> d]
Failed(m) == [ok |-> FALSE, message |-> m]

\* how a GET /api/senior/today can settle, as fetchStatus sees it
TodayOutcomes(r) ==
    {Ok(d) : d \in TodayBodies(DecodeQuery(r.query))}
    \cup {Failed("Failed to fetch status"), Failed(NetworkErrorMessage), Failed(SyntaxErrorMessage)}

\* how a POST /api/senior/confirm can settle, as handleConfirm sees it
ConfirmOutcomes ==
    {Ok(Null), Failed("Failed to confirm dose"), Failed(NetworkErrorMessage)}

\* how a GET /api/caregiver/dashboard can settle, as fetchData sees it
DashboardOutcomes(r) ==
    {Ok(d) : d \in DashboardBodies(DecodeQuery(r.query))}
    \cup {Failed("Failed to load dashboard"), Failed(NetworkErrorMessage), Failed(SyntaxErrorMessage)}

\* ---------------------------------------------------------------- state
VARIABLES
    mode,       \* App: useState('senior')
    inst,       \* number of the mounted view instance; 0 before the first render
    senior,     \* SeniorView: userId, status, loading, error and the memo nextPending
    caregiver,  \* CaregiverView: patientId, data, loading, error
    inflight,   \* requests sent and not yet settled
    nreq,       \* number of requests sent so far
    hist        \* history: the last event, and the last body a load of the
                \* mounted instance received (with the patient it was asked for)

vars == <<mode, inst, senior, caregiver, inflight, nreq, hist>>

\* the useState initial values of SeniorView
InitialSenior ==
    [userId |-> DefaultId, status |-> Null, loading |-> FALSE, error |-> "",
     nextPending |-> Null]

\* the useState initial values of CaregiverView
InitialCaregiver ==
    [patientId |-> DefaultId, data |-> Null, loading |-> FALSE, error |-> ""]

NoResponse == [data |-> Null, user |-> "<none>"]

Init ==
    /\ mode = "senior"
    /\ inst = 0
    /\ senior = InitialSenior
    /\ caregiver = InitialCaregiver
    /\ inflight = {}
    /\ nreq = 0
    /\ hist = [lastEv |-> "init", lastOk |-> NoResponse]

\* ------------------------------------------------------------- requests
\* fetch(`${API_BASE}/api/senior/today?user_id=${encodeURIComponent(userId)}`)
TodayRequest(id, i, userId) ==
    [id |-> id, inst |-> i, kind |-> "today", query |-> EncodeURIComponent(userId)]

\* fetch(`${API_BASE}/api/caregiver/dashboard?patient_id=${encodeURIComponent(patientId)}`)
DashboardRequest(id, i, patientId) ==
    [id |-> id, inst |-> i, kind |-> "dashboard", query |-> EncodeURIComponent(patientId)]

\* fetch(`${API_BASE}/api/senior/confirm`, { method: 'POST', body: ... });
\* doseOf is history: the patient the snapshot holding the dose was asked for
ConfirmRequest(id, i, userId, np, doseOf) ==
    [id |-> id, inst |-> i, kind |-> "confirm",
     body |-> [user_id |-> userId,
               medication_id |-> np.medication_id,
               scheduled_time_iso |-> np.scheduled_time],
     doseOf |-> doseOf]

\* a settled request of an unmounted instance sets no state
Live(r) == r.inst = inst

\* the reload a confirm in flight will need once it succeeds counts in the cap
Committed == nreq + Cardinality({r \in inflight : r.kind = "confirm"})

\* setLoading(true); setError('') at the head of fetchStatus, handleConfirm, fetchData
BeginFetch(v) == [v EXCEPT !.loading = TRUE, !.error = ""]

\* catch: setError(e.message); finally: setLoading(false)
FailFetch(v, msg) == [v EXCEPT !.error = msg, !.loading = FALSE]

Event(e) == [hist EXCEPT !.lastEv = e]

\* mutant: the effect runs a fetch that closed over the previous identifier
ClosurePrevious(prev, next) == prev

\* useEffect(..., [userId]) / useEffect(..., [patientId]) runs the fetch function
\* of the render that committed the change, which closes over the new identifier
ClosureId(prev, next) == next

\* ----------------------------------------------------------- mounting
\* first render of a SeniorView and its effect: fetchStatus()
MountSenior(i) ==
    /\ senior' = BeginFetch(RenderSenior(InitialSenior))
    /\ caregiver' = InitialCaregiver
    /\ inflight' = inflight \cup {TodayRequest(nreq + 1, i, InitialSenior.userId)}

\* first render of a CaregiverView and its effect: fetchData()
MountCaregiver(i) ==
    /\ caregiver' = BeginFetch(InitialCaregiver)
    /\ senior' = InitialSenior
    /\ inflight' = inflight \cup {DashboardRequest(nreq + 1, i, InitialCaregiver.patientId)}

\* the page loads: App renders with mode 'senior'
AppMount ==
    /\ inst = 0
    /\ inst' = 1
    /\ MountSenior(1)
    /\ nreq' = nreq + 1
    /\ hist' = [lastEv |-> "mount", lastOk |-> NoResponse]
    /\ UNCHANGED mode

\* onClick={() => setMode(m)}: the other view is unmounted, its state dropped
SetMode(m) ==
    /\ inst > 0 /\ inst < MaxMounts
    /\ Committed < MaxReqs
    /\ m # mode
    /\ mode' = m
    /\ inst' = inst + 1
    /\ IF m = "senior" THEN MountSenior(inst + 1) ELSE MountCaregiver(inst + 1)
    /\ nreq' = nreq + 1
    /\ hist' = [lastEv |-> "setMode", lastOk |-> NoResponse]

\* ---------------------------------------------------------- SeniorView
\* onChange={e => setUserId(e.target.value)}, then the effect on [userId]
SetUserId(v) ==
    /\ inst > 0 /\ mode = "senior"
    /\ Committed < MaxReqs
    /\ v # senior.userId
    /\ senior' = BeginFetch(RenderSenior([senior EXCEPT !.userId = v]))
    /\ inflight' = inflight \cup {TodayRequest(nreq + 1, inst, ClosureId(senior.userId, v))}
    /\ nreq' = nreq + 1
    /\ hist' = Event("setUserId")
    /\ UNCHANGED <<mode, inst, caregiver>>

\* mutant: applies a body only when it was asked for the identifier now entered
ApplyStatusIfCurrent(s, r, data) ==
    IF DecodeQuery(r.query) = s.userId
    THEN [s EXCEPT !.status = data, !.loading = FALSE]
    ELSE [s EXCEPT !.loading = FALSE]

\* setStatus(data), and finally setLoading(false)
ApplyStatus(s, r, data) == [s EXCEPT !.status = data, !.loading = FALSE]

\* mutant: a failed load drops the snapshot
FailStatusClearing(s, msg) == [s EXCEPT !.error = msg, !.loading = FALSE, !.status = Null]

\* fetchStatus: catch (e) { setError(e.message) } finally { setLoading(false) }
FailStatus(s, msg) == FailFetch(s, msg)

\* fetchStatus after its fetch settles with outcome o (for handleConfirm's
\* reload, handleConfirm's own finally sets loading false once more)
TodaySettled(r, o) ==
    /\ r \in inflight /\ r.kind = "today"
    /\ inflight' = inflight \ {r}
    /\ IF Live(r)
       THEN /\ senior' = IF o.ok THEN RenderSenior(ApplyStatus(senior, r, o.data))
                         ELSE RenderSenior(FailStatus(senior, o.message))
            /\ hist' = [lastEv |-> "todaySettled",
                        lastOk |-> IF o.ok THEN [data |-> o.data, user |-> DecodeQuery(r.query)]
                                   ELSE hist.lastOk]
       ELSE /\ hist' = Event("staleSettled")
            /\ UNCHANGED senior
    /\ UNCHANGED <<mode, inst, caregiver, nreq>>

\* mutant: clears the error before looking for a pending dose
ReturnClearingError(s) == [s EXCEPT !.error = ""]

\* if (!nextPending) return
ReturnWithoutPending(s) == s

\* onClick={handleConfirm}; the button is rendered only while loading is false
HandleConfirm ==
    /\ inst > 0 /\ mode = "senior"
    /\ ~senior.loading
    /\ IF senior.nextPending = Null
       THEN /\ senior' = ReturnWithoutPending(senior)
            /\ hist' = Event("confirmNone")
            /\ UNCHANGED <<inflight, nreq>>
       ELSE /\ Committed + 2 <= MaxReqs
            /\ senior' = BeginFetch(senior)
            /\ inflight' = inflight \cup
                 {ConfirmRequest(nreq + 1, inst, senior.userId, senior.nextPending,
                                 hist.lastOk.user)}
            /\ nreq' = nreq + 1
            /\ hist' = Event("confirm")
    /\ UNCHANGED <<mode, inst, caregiver>>

\* mutant: reloads whatever the answer was
ReloadAlways(r, o, id) == {TodayRequest(id, r.inst, r.body.user_id)}

\* mutant: never reloads
ReloadNever(r, o, id) == {}

\* if (!res.ok) throw ...; await fetchStatus(), with the userId handleConfirm closed over
ReloadAfterConfirm(r, o, id) ==
    IF o.ok THEN {TodayRequest(id, r.inst, r.body.user_id)} ELSE {}

\* handleConfirm after its POST settles with outcome o
ConfirmSettled(r, o) ==
    /\ r \in inflight /\ r.kind = "confirm"
    /\ LET reload == ReloadAfterConfirm(r, o, nreq + 1)
       IN /\ inflight' = (inflight \ {r}) \cup reload
          /\ nreq' = nreq + Cardinality(reload)
    /\ IF Live(r)
       THEN /\ senior' = IF o.ok THEN BeginFetch(senior) ELSE FailFetch(senior, o.message)
            /\ hist' = Event("confirmSettled")
       ELSE /\ hist' = Event("staleSettled")
            /\ UNCHANGED senior
    /\ UNCHANGED <<mode, inst, caregiver>>

\* ------------------------------------------------------- CaregiverView
\* onChange={e => setPatientId(e.target.value)}, then the effect on [patientId]
SetPatientId(v) ==
    /\ inst > 0 /\ mode = "caregiver"
    /\ Committed < MaxReqs
    /\ v # caregiver.patientId
    /\ caregiver' = BeginFetch([caregiver EXCEPT !.patientId = v])
    /\ inflight' = inflight \cup
         {DashboardRequest(nreq + 1, inst, ClosureId(caregiver.patientId, v))}
    /\ nreq' = nreq + 1
    /\ hist' = Event("setPatientId")
    /\ UNCHANGED <<mode, inst, senior>>

\* the Refresh button: onClick={fetchData}
Refresh ==
    /\ inst > 0 /\ mode = "caregiver"
    /\ Committed < MaxReqs
    /\ caregiver' = BeginFetch(caregiver)
    /\ inflight' = inflight \cup {DashboardRequest(nreq + 1, inst, caregiver.patientId)}
    /\ nreq' = nreq + 1
    /\ hist' = Event("refresh")
    /\ UNCHANGED <<mode, inst, senior>>

\* setData(json), and finally setLoading(false)
ApplyData(c, r, json) == [c EXCEPT !.data = json, !.loading = FALSE]

\* fetchData after its fetch settles with outcome o
DashboardSettled(r, o) ==
    /\ r \in inflight /\ r.kind = "dashboard"
    /\ inflight' = inflight \ {r}
    /\ IF Live(r)
       THEN /\ caregiver' = IF o.ok THEN ApplyData(caregiver, r, o.data)
                            ELSE FailFetch(caregiver, o.message)
            /\ hist' = [lastEv |-> "dashboardSettled",
                        lastOk |-> IF o.ok THEN [data |-> o.data, user |-> DecodeQuery(r.query)]
                                   ELSE hist.lastOk]
       ELSE /\ hist' = Event("staleSettled")
            /\ UNCHANGED caregiver
    /\ UNCHANGED <<mode, inst, senior, nreq>>

\* ------------------------------------------------------- specification
Requests(kind) == {r \in inflight : r.kind = kind}

SwitchRole == \E m \in {"senior", "caregiver"} : SetMode(m)
EditUserId == \E v \in Ids : SetUserId(v)
TodaySettles == \E r \in Requests("today") : \E o \in TodayOutcomes(r) : TodaySettled(r, o)
ConfirmSettles == \E r \in Requests("confirm") : \E o \in ConfirmOutcomes : ConfirmSettled(r, o)
EditPatientId == \E v \in Ids : SetPatientId(v)
DashboardSettles ==
    \E r \in Requests("dashboard") : \E o \in DashboardOutcomes(r) : DashboardSettled(r, o)

Next ==
    \/ AppMount
    \/ SwitchRole
    \/ EditUserId
    \/ HandleConfirm
    \/ TodaySettles
    \/ ConfirmSettles
    \/ EditPatientId
    \/ Refresh
    \/ DashboardSettles

Spec == Init /\ [][Next]_vars

\* the first load of a fresh SeniorView answered with any Daily Status
TodaySettlesAny ==
    \E r \in Requests("today") : \E d \in AnyDailyStatus : TodaySettled(r, Ok(d))

NextDerive ==
    \/ AppMount
    \/ TodaySettlesAny

SpecDerive == Init /\ [][NextDerive]_vars

\* ------------------------------------------------------------ properties
NewRequests == inflight' \ inflight

ViewLoading == IF mode = "senior" THEN senior.loading ELSE caregiver.loading

IsPendingAt(items, k) == items[k].status # "taken"

\* C1: the next pending dose is "none" when the snapshot has no items or only
\* taken items; otherwise it is an item of the snapshot that is not taken and
\* whose scheduled time is the minimum among the non-taken items.
C1_NextPendingIsEarliest ==
    LET st == senior.status
        np == senior.nextPending
    IN IF "items" \notin DOMAIN st
       THEN np = Null
       ELSE IF \A k \in 1..Len(st.items) : st.items[k].status = "taken"
            THEN np = Null
            ELSE /\ \E k \in 1..Len(st.items) : st.items[k] = np
                 /\ np.status \in {"pending", "missed"}
                 /\ \A k \in 1..Len(st.items) :
                       IsPendingAt(st.items, k) =>
                          DateValue(np.scheduled_time) <= DateValue(st.items[k].scheduled_time)

\* a snapshot whose earliest non-taken item comes after a later non-taken one
C1_Witness ==
    /\ "items" \in DOMAIN senior.status
    /\ senior.nextPending # Null
    /\ \E j, k \in 1..Len(senior.status.items) :
          /\ j < k
          /\ IsPendingAt(senior.status.items, j) /\ IsPendingAt(senior.status.items, k)
          /\ DateValue(senior.status.items[k].scheduled_time)
               < DateValue(senior.status.items[j].scheduled_time)
          /\ senior.nextPending = senior.status.items[k]

\* C2: a failed status load leaves the Daily Status as it was and sets a
\* non-empty error; a failed dashboard load does the same for the Dashboard
\* Snapshot.
C2_FailedLoadKeepsData ==
    [][/\ \A r \in Requests("today") : \A o \in TodayOutcomes(r) :
             (~o.ok /\ Live(r) /\ TodaySettled(r, o)) =>
                (senior'.status = senior.status /\ senior'.error # "")
       /\ \A r \in Requests("dashboard") : \A o \in DashboardOutcomes(r) :
             (~o.ok /\ Live(r) /\ DashboardSettled(r, o)) =>
                (caregiver'.data = caregiver.data /\ caregiver'.error # "")]_vars

\* a load has just failed and the snapshot loaded before is still held
C2_Witness ==
    /\ hist.lastEv = "todaySettled"
    /\ senior.error # ""
    /\ senior.status # Null

\* C3: a successful confirmation sends exactly one GET /api/senior/today, and
\* neither the click nor the POST's success changes the Daily Status.
C3_ConfirmOkReloadsOnce ==
    [][/\ \A r \in Requests("confirm") :
             ConfirmSettled(r, Ok(Null)) =>
                /\ Cardinality(NewRequests) = 1
                /\ \A q \in NewRequests : q.kind = "today" /\ q.inst = r.inst
                /\ nreq' = nreq + 1
                /\ senior'.status = senior.status
       /\ HandleConfirm => senior'.status = senior.status]_vars

\* a confirm has just succeeded: its reload is in flight
C3_Witness ==
    /\ hist.lastEv = "confirmSettled"
    /\ senior.error = ""
    /\ senior.loading
    /\ Requests("today") # {}

\* C4: Confirm without a pending dose sends nothing and changes neither
\* status, loading, error nor the patient identifier.
C4_ConfirmWithoutPendingIsNoop ==
    [][(HandleConfirm /\ senior.nextPending = Null) =>
          /\ senior' = senior
          /\ inflight' = inflight
          /\ nreq' = nreq]_vars

\* Confirm was invoked on a loaded snapshot with nothing left to confirm
C4_Witness ==
    /\ hist.lastEv = "confirmNone"
    /\ senior.nextPending = Null
    /\ senior.status # Null

\* C5: a failed confirmation sets a non-empty error, leaves the Daily Status
\* as it was and sends no reload.
C5_FailedConfirmNoReload ==
    [][\A r \in Requests("confirm") : \A o \in ConfirmOutcomes :
          (~o.ok /\ ConfirmSettled(r, o)) =>
             /\ NewRequests = {}
             /\ nreq' = nreq
             /\ Live(r) => (senior'.error # "" /\ senior'.status = senior.status)]_vars

\* a confirm has just failed: error shown, snapshot kept, nothing in flight
C5_Witness ==
    /\ hist.lastEv = "confirmSettled"
    /\ senior.error # ""
    /\ senior.status # Null
    /\ inflight = {}

\* C6: each identifier change, and each mount, sends exactly one load request,
\* asking for the identifier the view holds after the step.
C6_ChangeLoadsOnce ==
    [][/\ (EditUserId \/ AppMount \/ (SwitchRole /\ mode' = "senior")) =>
             /\ Cardinality(NewRequests) = 1
             /\ \A q \in NewRequests :
                   q.kind = "today" /\ DecodeQuery(q.query) = senior'.userId
       /\ (EditPatientId \/ (SwitchRole /\ mode' = "caregiver")) =>
             /\ Cardinality(NewRequests) = 1
             /\ \A q \in NewRequests :
                   q.kind = "dashboard" /\ DecodeQuery(q.query) = caregiver'.patientId]_vars

\* the identifier was just edited and a load for the new value is in flight
C6_Witness ==
    /\ hist.lastEv = "setUserId"
    /\ senior.userId # DefaultId
    /\ \E q \in Requests("today") : q.query = EncodeURIComponent(senior.userId)

\* C7: responses are applied in the order they settle: the snapshot a view
\* holds is the body of the successful load that settled last, whatever
\* identifier is entered now.
C7_LastSettledWins ==
    (inst > 0 /\ hist.lastOk # NoResponse) =>
       IF mode = "senior" THEN senior.status = hist.lastOk.data
       ELSE caregiver.data = hist.lastOk.data

\* every request has settled and the snapshot shown is another patient's
C7_Witness ==
    /\ mode = "senior"
    /\ inflight = {}
    /\ senior.status # Null
    /\ hist.lastOk.user # senior.userId

\* C8: while a request of the mounted view is in flight its loading flag is true.
C8_LoadingWhileInFlight ==
    \A r \in inflight : Live(r) => ViewLoading

\* C9: the stored Daily Status changes only by becoming the body of a
\* successful status response, items in the order received; deriving the next
\* pending dose does not reorder it.
C9_SnapshotReplacedWholesale ==
    [][(inst' = inst /\ senior'.status # senior.status) =>
          \E r \in Requests("today") : \E o \in TodayOutcomes(r) :
             o.ok /\ r \notin inflight' /\ senior'.status = o.data]_vars

\* a snapshot is held whose items are not in time order, with a dose derived
C9_Witness ==
    /\ "items" \in DOMAIN senior.status
    /\ senior.nextPending # Null
    /\ senior.status.items[1] # senior.nextPending
    /\ SortItems(senior.status.items) # senior.status.items

\* C10: a confirmation in flight names the patient for whom the snapshot
\* holding its dose was fetched.
C10_ConfirmPairsPatientWithOwnDose ==
    \A r \in Requests("confirm") : r.doseOf = r.body.user_id
====
